---- MODULE Spec2Model ----
(***************************************************************************)
(* Model of the tango tag store (tags.go): Tag.Get, Tag.Set, Tag.Delete    *)
(* and TagBag.Tags over the table "tags" of the package documentation,     *)
(* with the encoding/json conversions Set and Get go through.  The calls   *)
(* are taken one at a time against a store that does not fail:             *)
(*   Spec      - four triples over two universes and two entities          *)
(*   SpecBag   - one tag-bag with three keys                               *)
(*   SpecCodec - one triple, every value and every output variable         *)
(* and, a store call at a time, by callers that run side by side or        *)
(* against a store that fails:                                             *)
(*   SpecConc   - two callers on one triple, the store's write lock        *)
(*   SpecFail   - one caller, a store call of each call may fail           *)
(*   SpecRaw    - a table that starts with a row inserted as raw text      *)
(*   SpecHandle - the calls made through Tag and TagBag handles            *)
(*   SpecRead   - Get and Tags over such a table, store calls of Tags fail  *)
(*   SpecPair   - two callers, Set and Delete on two triples                *)
(***************************************************************************)
EXTENDS Integers, Sequences, FiniteSets, TLC

VARIABLES rows, out, last, list, written, calls, lock, handles

\* the state of the calls in progress and the handles the caller holds
aux == <<calls, lock, handles>>

vars == <<rows, out, last, list, written, calls, lock, handles>>

(***************************************************************************)
(* Bounds of the model.                                                    *)
(***************************************************************************)
\* longest slice a caller passes to Set
MaxLen == 2
\* largest integer a caller passes to Set
MaxInt == 1

(***************************************************************************)
(* Strings.  Lexicographic (bytewise) order of the strings of the model,   *)
(* as sort.Strings of encoding/json and the BINARY collation of the        *)
(* tags_id index order them.                                               *)
(***************************************************************************)
Collation == <<"a", "b", "c", "hello", "john", "world">>

Rank(s) == CHOOSE i \in 1..Len(Collation) : Collation[i] = s

RECURSIVE SortStrings(_)
SortStrings(S) ==
    IF S = {} THEN <<>>
    ELSE LET m == CHOOSE x \in S : \A y \in S : Rank(x) <= Rank(y)
         IN  <<m>> \o SortStrings(S \ {m})

ElemsOf(q) == {q[i] : i \in 1..Len(q)}

Reverse(s) == [i \in 1..Len(s) |-> s[Len(s) + 1 - i]]

(***************************************************************************)
(* Go values a caller hands to Set or finds in its output variable.        *)
(***************************************************************************)
Strs == {"hello", "world"}
FieldNames == {"hello", "john"}
Ints == 0..MaxInt

GoNil == [kind |-> "nil"]
GoInt(n) == [kind |-> "int", n |-> n]
GoString(s) == [kind |-> "string", s |-> s]
GoBool(b) == [kind |-> "bool", b |-> b]
GoSlice(elems) == [kind |-> "slice", elems |-> elems]
GoMap(m) == [kind |-> "map", m |-> m]
\* a value encoding/json has no encoding for (a channel, a func)
GoChan == [kind |-> "chan"]

SeqsUpTo(S, n) == UNION {[1..k -> S] : k \in 0..n}
PartialMaps(D, R) == UNION {[K -> R] : K \in SUBSET D}

Scalars == {GoNil} \cup {GoInt(n) : n \in Ints} \cup {GoString(s) : s \in Strs}
             \cup {GoBool(b) : b \in BOOLEAN}
Slices == {GoSlice(q) : q \in SeqsUpTo(Strs, MaxLen)}
Maps == {GoMap(m) : m \in PartialMaps(FieldNames, Strs)}
GoValues == Scalars \cup Slices \cup Maps

(***************************************************************************)
(* JSON text: the sequence of its tokens.                                  *)
(***************************************************************************)
Quote(s) == "\"" \o s \o "\""
NumTok(n) == ToString(n)

StringToks == {Quote(s) : s \in Strs \cup FieldNames}
NumToks == {NumTok(n) : n \in Ints}
IsScalarTok(t) == t \in StringToks \cup NumToks \cup {"null", "true", "false"}

Unquote(t) == CHOOSE s \in Strs \cup FieldNames : Quote(s) = t
NumOf(t) == CHOOSE n \in Ints : NumTok(n) = t

RECURSIVE Join(_)
\* the texts of a sequence of texts, separated by commas
Join(parts) ==
    IF parts = <<>> THEN <<>>
    ELSE IF Len(parts) = 1 THEN parts[1]
    ELSE parts[1] \o <<",">> \o Join(Tail(parts))

\* mutant: the keys of a map in descending order
MarshalMapDescending(m) ==
    LET ks == Reverse(SortStrings(DOMAIN m))
    IN  <<"{">> \o Join([i \in 1..Len(ks) |-> <<Quote(ks[i]), ":", Quote(m[ks[i]])>>]) \o <<"}">>

\* json.Marshal of a string-keyed map: keys in sorted order
MarshalMap(m) ==
    LET ks == SortStrings(DOMAIN m)
    IN  <<"{">> \o Join([i \in 1..Len(ks) |-> <<Quote(ks[i]), ":", Quote(m[ks[i]])>>]) \o <<"}">>

\* json.Marshal of a []string: elements in input order
MarshalSlice(q) ==
    <<"[">> \o Join([i \in 1..Len(q) |-> <<Quote(q[i])>>]) \o <<"]">>

\* json.Marshal(value): [err, raw]
Marshal(v) ==
    CASE v.kind = "nil" -> [err |-> "nil", raw |-> <<"null">>]
      [] v.kind = "int" -> [err |-> "nil", raw |-> <<NumTok(v.n)>>]
      [] v.kind = "string" -> [err |-> "nil", raw |-> <<Quote(v.s)>>]
      [] v.kind = "bool" -> [err |-> "nil", raw |-> <<IF v.b THEN "true" ELSE "false">>]
      [] v.kind = "slice" -> [err |-> "nil", raw |-> MarshalSlice(v.elems)]
      [] v.kind = "map" -> [err |-> "nil", raw |-> MarshalMap(v.m)]
      [] OTHER -> [err |-> "UnsupportedTypeError", raw |-> <<>>]

(***************************************************************************)
(* json.Unmarshal: the text is validated as a whole first, then decoded    *)
(* into the variable the caller passed.                                    *)
(***************************************************************************)
\* a JSON number no Go int holds
FloatToks == {"1.5"}

IsValueTok(t) == IsScalarTok(t) \/ t \in FloatToks

Inner(raw) == SubSeq(raw, 2, Len(raw) - 1)

ValidArray(raw) ==
    /\ Len(raw) >= 2 /\ raw[1] = "[" /\ raw[Len(raw)] = "]"
    /\ LET in == Inner(raw)
       IN  \/ in = <<>>
           \/ /\ Len(in) % 2 = 1
              /\ \A i \in 1..Len(in) :
                    IF i % 2 = 1 THEN IsValueTok(in[i]) ELSE in[i] = ","

ValidObject(raw) ==
    /\ Len(raw) >= 2 /\ raw[1] = "{" /\ raw[Len(raw)] = "}"
    /\ LET in == Inner(raw)
       IN  \/ in = <<>>
           \/ /\ Len(in) % 4 = 3
              /\ \A i \in 1..Len(in) :
                    CASE i % 4 = 1 -> in[i] \in StringToks
                      [] i % 4 = 2 -> in[i] = ":"
                      [] i % 4 = 3 -> IsValueTok(in[i])
                      [] OTHER -> in[i] = ","

\* checkValid: is the text one JSON value
Valid(raw) ==
    \/ Len(raw) = 1 /\ IsValueTok(raw[1])
    \/ ValidArray(raw)
    \/ ValidObject(raw)

\* the element tokens of a valid array text, in order
ArrayElems(raw) ==
    LET in == Inner(raw)
    IN  [i \in 1..((Len(in) + 1) \div 2) |-> in[2 * i - 1]]

\* the <<key, value>> token pairs of a valid object text, in order
ObjectPairs(raw) ==
    LET in == Inner(raw)
    IN  [i \in 1..((Len(in) + 1) \div 4) |-> <<in[4 * i - 3], in[4 * i - 1]>>]

ZeroValue(type) ==
    CASE type = "int" -> GoInt(0)
      [] type = "string" -> GoString("")
      [] type = "bool" -> GoBool(FALSE)
      [] OTHER -> GoNil

\* a string element decoded from token t into a string holding old:
\* null leaves it alone, any other non-string is a type error and leaves it alone
DecodeStringElem(t, old) ==
    IF t \in StringToks THEN [err |-> "nil", s |-> Unquote(t)]
    ELSE IF t = "null" THEN [err |-> "nil", s |-> old]
    ELSE [err |-> "UnmarshalTypeError", s |-> old]

FirstErr(errs) ==
    IF \A i \in 1..Len(errs) : errs[i] = "nil" THEN "nil"
    ELSE errs[CHOOSE i \in 1..Len(errs) :
                 errs[i] # "nil" /\ \A j \in 1..(i - 1) : errs[j] = "nil"]

\* array into a []string: the slice is cut to length zero and grown element
\* by element over its old backing array
DecodeSlice(raw, old) ==
    LET toks == ArrayElems(raw)
        prev == IF old.kind = "slice" THEN old.elems ELSE <<>>
        dec == [i \in 1..Len(toks) |->
                   DecodeStringElem(toks[i], IF i <= Len(prev) THEN prev[i] ELSE "")]
    IN  [err |-> FirstErr([i \in 1..Len(toks) |-> dec[i].err]),
         val |-> GoSlice([i \in 1..Len(toks) |-> dec[i].s])]

RECURSIVE PutPairs(_, _)
\* the map m after storing the pairs in order; each element starts from zero
PutPairs(m, pairs) ==
    IF pairs = <<>> THEN m
    ELSE LET k == Unquote(pairs[1][1])
             e == DecodeStringElem(pairs[1][2], "").s
         IN  PutPairs([x \in DOMAIN m \cup {k} |-> IF x = k THEN e ELSE m[x]],
                      Tail(pairs))

\* object into a map[string]string: a nil map is allocated, a non-nil map is
\* reused and keeps the entries it has
DecodeMap(raw, old) ==
    LET pairs == ObjectPairs(raw)
        base == IF old.kind = "map" THEN old.m ELSE <<>>
    IN  [err |-> FirstErr([i \in 1..Len(pairs) |->
                              DecodeStringElem(pairs[i][2], "").err]),
         val |-> GoMap(PutPairs(base, pairs))]

Nullable(type) == type \in {"*string", "[]string", "map[string]string"}

\* the decoding of valid text raw into the variable slot: [err, out]
Decode(raw, slot) ==
    LET t == raw[1]
        set(v) == [err |-> "nil", out |-> [slot EXCEPT !.val = v]]
        mismatch == [err |-> "UnmarshalTypeError", out |-> slot]
    IN  CASE t = "null" ->
               IF Nullable(slot.type) THEN set(GoNil) ELSE set(slot.val)
          [] t \in StringToks ->
               IF slot.type \in {"string", "*string"} THEN set(GoString(Unquote(t)))
               ELSE mismatch
          [] t \in NumToks ->
               IF slot.type = "int" THEN set(GoInt(NumOf(t))) ELSE mismatch
          [] t \in FloatToks -> mismatch
          [] t \in {"true", "false"} ->
               IF slot.type = "bool" THEN set(GoBool(t = "true")) ELSE mismatch
          [] t = "[" ->
               IF slot.type = "[]string"
               THEN LET d == DecodeSlice(raw, slot.val)
                    IN  [err |-> d.err, out |-> [slot EXCEPT !.val = d.val]]
               ELSE mismatch
          [] OTHER ->
               IF slot.type = "map[string]string"
               THEN LET d == DecodeMap(raw, slot.val)
                    IN  [err |-> d.err, out |-> [slot EXCEPT !.val = d.val]]
               ELSE mismatch

\* json.Unmarshal([]byte(raw), out): [err, out]
Unmarshal(raw, slot) ==
    IF ~Valid(raw) THEN [err |-> "SyntaxError", out |-> slot]
    ELSE Decode(raw, slot)

(***************************************************************************)
(* The table "tags": its rows in rowid order.  A row is                    *)
(* [universe, entity, key, value]; value is the JSON text.                 *)
(***************************************************************************)
Row(u, e, k, raw) == [universe |-> u, entity |-> e, key |-> k, value |-> raw]

\* mutant: the universe left out of the match
SameTripleNoUniverse(r, u, e, k) == r.entity = e /\ r.key = k

\* WHERE universe = ? AND entity = ? AND key = ?
SameTriple(r, u, e, k) == r.universe = u /\ r.entity = e /\ r.key = k

\* mutant: the entity left out of the match
SameBagNoEntity(r, u, e) == r.universe = u

\* WHERE universe = ? AND entity = ?
SameBag(r, u, e) == r.universe = u /\ r.entity = e

\* mutant: a plain INSERT, no ON CONFLICT clause
tagInsert(tbl, u, e, k, raw) ==
    Append(tbl, [universe |-> u, entity |-> e, key |-> k, value |-> raw])

\* INSERT ... ON CONFLICT(universe, entity, key) DO UPDATE SET value=excluded.value
tagUpsert(tbl, u, e, k, raw) ==
    IF \E i \in 1..Len(tbl) : SameTriple(tbl[i], u, e, k)
    THEN [i \in 1..Len(tbl) |->
             IF SameTriple(tbl[i], u, e, k) THEN [tbl[i] EXCEPT !.value = raw]
             ELSE tbl[i]]
    ELSE Append(tbl, Row(u, e, k, raw))

\* mutant: the key left out of the WHERE clause of the SELECT
tagQueryBag(tbl, u, e, k) ==
    LET hit == SelectSeq(tbl, LAMBDA r : SameBag(r, u, e))
    IN  [i \in 1..Len(hit) |-> hit[i].value]

\* SELECT value FROM tags WHERE universe = ? AND entity = ? AND key = ?
tagQuery(tbl, u, e, k) ==
    LET hit == SelectSeq(tbl, LAMBDA r : SameTriple(r, u, e, k))
    IN  [i \in 1..Len(hit) |-> hit[i].value]

\* mutant: entity and key bound in the wrong order
tagDeleteSwapped(tbl, u, e, k) ==
    SelectSeq(tbl, LAMBDA r : ~(r.universe = u /\ r.entity = k /\ r.key = e))

\* mutant: the key left out of the WHERE clause
tagDeleteBag(tbl, u, e, k) ==
    SelectSeq(tbl, LAMBDA r : ~(r.universe = u /\ r.entity = e))

\* DELETE FROM tags WHERE universe = ? AND entity = ? AND key = ?
tagDelete(tbl, u, e, k) == SelectSeq(tbl, LAMBDA r : ~SameTriple(r, u, e, k))

RECURSIVE SortKeys(_)
\* a sequence of strings in ascending order, duplicates kept
SortKeys(q) ==
    IF q = <<>> THEN <<>>
    ELSE LET i == CHOOSE x \in 1..Len(q) :
                     /\ \A y \in 1..Len(q) : Rank(q[x]) <= Rank(q[y])
                     /\ \A y \in 1..(x - 1) : Rank(q[y]) > Rank(q[x])
         IN  <<q[i]>> \o SortKeys(SubSeq(q, 1, i - 1) \o SubSeq(q, i + 1, Len(q)))

\* The statement names no order, so the rows come in the order of the access
\* path the store takes: the covering index tags_id (by key), the same index
\* walked backwards (PRAGMA reverse_unordered_selects), or the index
\* tags_entities (by rowid within the pair).
ScanPlans == {"tags_id", "tags_id_reverse", "tags_entities"}

\* SELECT key FROM tags WHERE universe = ? AND entity = ?
tagKeys(tbl, u, e, plan) ==
    LET hit == SelectSeq(tbl, LAMBDA r : SameBag(r, u, e))
        byRowid == [i \in 1..Len(hit) |-> hit[i].key]
    IN  CASE plan = "tags_id" -> SortKeys(byRowid)
          [] plan = "tags_id_reverse" -> Reverse(SortKeys(byRowid))
          [] OTHER -> byRowid

(***************************************************************************)
(* The calls, as functions of the table and of their arguments.            *)
(***************************************************************************)
\* mutant: the output variable is cleared before the row is looked for
TagGetZeroing(tbl, u, e, k, slot) ==
    LET zero == [slot EXCEPT !.val = ZeroValue(slot.type)]
        hit == SelectSeq(tbl, LAMBDA r :
                   r.universe = u /\ r.entity = e /\ r.key = k)
    IN  IF hit = <<>> THEN [found |-> FALSE, err |-> "nil", out |-> zero]
        ELSE LET um == Unmarshal(hit[1].value, zero)
             IN  IF um.err # "nil"
                 THEN [found |-> FALSE, err |-> um.err, out |-> um.out]
                 ELSE [found |-> TRUE, err |-> "nil", out |-> um.out]

\* the value column of a row that holds SQL NULL, which is no text
SqlNull == <<"NULL">>

\* mutant: what json.Unmarshal returns is not looked at
TagGetUnchecked(tbl, u, e, k, slot) ==
    LET rs == tagQuery(tbl, u, e, k)
    IN  IF rs = <<>> THEN [found |-> FALSE, err |-> "nil", out |-> slot]
        ELSE IF rs[1] = SqlNull
        THEN [found |-> FALSE, err |-> "ScanError", out |-> slot]
        ELSE [found |-> TRUE, err |-> "nil", out |-> Unmarshal(rs[1], slot).out]

\* Tag.Get(out): [found, err, out]
TagGet(tbl, u, e, k, slot) ==
    LET rs == tagQuery(tbl, u, e, k)
    IN  IF rs = <<>> THEN [found |-> FALSE, err |-> "nil", out |-> slot]
        ELSE IF rs[1] = SqlNull
        THEN [found |-> FALSE, err |-> "ScanError", out |-> slot]
        ELSE LET um == Unmarshal(rs[1], slot)
             IN  IF um.err # "nil"
                 THEN [found |-> FALSE, err |-> um.err, out |-> um.out]
                 ELSE [found |-> TRUE, err |-> "nil", out |-> um.out]

\* mutant: Get deletes the row it fails to decode
GetRowsRepair(tbl, u, e, k, slot) ==
    LET rs == tagQuery(tbl, u, e, k)
    IN  IF rs # <<>> /\ Unmarshal(rs[1], slot).err # "nil"
        THEN tagDelete(tbl, u, e, k)
        ELSE tbl

\* mutant: Get creates the row it does not find, with the text null
GetRowsCreate(tbl, u, e, k, slot) ==
    IF tagQuery(tbl, u, e, k) = <<>> THEN tagUpsert(tbl, u, e, k, <<"null">>)
    ELSE tbl

\* the table after Tag.Get: Get runs tagQuery and no other statement
GetRows(tbl, u, e, k, slot) == tbl

\* mutant: Set(nil) removes the row
TagSetNilDeletes(tbl, u, e, k, value) ==
    IF value = GoNil THEN [err |-> "nil", rows |-> tagDelete(tbl, u, e, k)]
    ELSE [err |-> "nil", rows |-> tagUpsert(tbl, u, e, k, Marshal(value).raw)]

\* Tag.Set(value): [err, rows]
TagSet(tbl, u, e, k, value) ==
    LET m == Marshal(value)
    IN  IF m.err # "nil" THEN [err |-> m.err, rows |-> tbl]
        ELSE [err |-> "nil", rows |-> tagUpsert(tbl, u, e, k, m.raw)]

\* mutant: a Delete that affects no row is reported as an error
TagDeleteStrict(tbl, u, e, k) ==
    LET left == SelectSeq(tbl, LAMBDA r :
                    ~(r.universe = u /\ r.entity = e /\ r.key = k))
    IN  [err |-> IF left = tbl THEN "ErrNoRows" ELSE "nil", rows |-> left]

\* Tag.Delete(): [err, rows]
TagDelete(tbl, u, e, k) == [err |-> "nil", rows |-> tagDelete(tbl, u, e, k)]

\* TagBag.Tags(): [err, list]
BagTags(tbl, u, e, plan) == [err |-> "nil", list |-> tagKeys(tbl, u, e, plan)]

\* the table after TagBag.Tags: Tags runs tagKeys and no other statement
TagsRows(tbl, u, e) == tbl

\* the store calls of Tags that may fail: bag.db.Prepare, stmt.Query, the
\* rs.Next() that fetches a row, the rs.Scan of a row
TagsFaults == {"none", "prepare", "query", "next", "scan"}

\* TagBag.Tags() when store call f fails, at row i of the result for "next"
\* and "scan": [err, list, hit].  Prepare and Query return their error.  A
\* Next that fails returns false and ends the loop, and rs.Err() is not
\* asked; what Scan returns is dropped, and the string it did not fill is
\* appended.
BagTagsAt(tbl, u, e, plan, f, i) ==
    LET keys == tagKeys(tbl, u, e, plan)
    IN  CASE f = "prepare" -> [err |-> "ErrPrepare", list |-> <<>>, hit |-> TRUE]
          [] f = "query" -> [err |-> "ErrQuery", list |-> <<>>, hit |-> TRUE]
          [] f = "next" /\ i <= Len(keys) + 1 ->
                [err |-> "nil", list |-> SubSeq(keys, 1, i - 1), hit |-> TRUE]
          [] f = "scan" /\ i <= Len(keys) ->
                [err |-> "nil", list |-> [keys EXCEPT ![i] = ""], hit |-> TRUE]
          [] OTHER ->
                [err |-> BagTags(tbl, u, e, plan).err,
                 list |-> BagTags(tbl, u, e, plan).list, hit |-> FALSE]

(***************************************************************************)
(* Inputs.                                                                 *)
(***************************************************************************)
Universes == {"u1", "u2"}
Entities == {"e1", "e2"}
Keys == {"a", "b", "c"}
AllTriples == Universes \X Entities \X Keys

\* Spec: key "a" under (u1, e1), under another universe and under another
\* entity, and a second key of (u1, e1)
Triples == {<<"u1", "e1", "a">>, <<"u2", "e1", "a">>, <<"u1", "e2", "a">>,
            <<"u1", "e1", "b">>}
StoreValues == {GoString("hello"), GoNil}
StoreSlots == {[type |-> "*string", val |-> GoNil],
               [type |-> "*string", val |-> GoString("world")]}

\* SpecBag: the tag-bag (u1, e1) alone, with every key
BagTriples == {t \in AllTriples : t[1] = "u1" /\ t[2] = "e1"}

\* SpecCodec: one tag, every value and every output variable
CodecTriples == {<<"u1", "e1", "a">>}
CodecValues == GoValues \cup {GoChan}

SlotTypes == {"int", "string", "bool", "*string", "[]string", "map[string]string"}

ValuesOf(type) ==
    CASE type = "int" -> {GoInt(n) : n \in Ints}
      [] type = "string" -> {GoString(s) : s \in Strs \cup {""}}
      [] type = "bool" -> {GoBool(b) : b \in BOOLEAN}
      [] type = "*string" -> {GoNil} \cup {GoString(s) : s \in Strs}
      [] type = "[]string" -> {GoNil} \cup Slices
      [] OTHER -> {GoNil} \cup Maps

Slots == UNION {{[type |-> ty, val |-> v] : v \in ValuesOf(ty)} : ty \in SlotTypes}

\* the variable types a Go value round-trips through
Compatible(v, type) ==
    CASE v.kind = "nil" -> Nullable(type)
      [] v.kind = "int" -> type = "int"
      [] v.kind = "string" -> type \in {"string", "*string"}
      [] v.kind = "bool" -> type = "bool"
      [] v.kind = "slice" -> type = "[]string"
      [] v.kind = "map" -> type = "map[string]string"
      [] OTHER -> FALSE

NoValue == [kind |-> "none"]

(***************************************************************************)
(* State.  rows: the table; out: the caller's output variable; last: the   *)
(* call made last and what it returned (existed: the triple had a row      *)
(* when the call began); list: what Tags returned; written: per triple,    *)
(* the value of the last Set since the last Delete.                        *)
(***************************************************************************)
Call(op, u, e, k, existed, found, err) ==
    [op |-> op, universe |-> u, entity |-> e, key |-> k,
     existed |-> existed, found |-> found, err |-> err]

Present(tbl, u, e, k) == tagQuery(tbl, u, e, k) # <<>>

\* the callers, and a caller that has no call in progress.  pc: the store
\* call the caller makes next; fault: the store call that fails in this
\* call, hit: it has failed; tx: the state of the call's transaction;
\* effect: what its statement did, uncommitted; pre: the table when the call
\* began; seen: the texts the triple held in the table while a Get ran
\* (<<>>: no row); with: the callers whose call overlapped this one.
Procs == {"p1", "p2"}
Faults == {"none", "begin", "prepare", "exec", "commit"}
NoEffect == [kind |-> "none"]
IdleCall ==
    [pc |-> "idle", op |-> "none", universe |-> "", entity |-> "", key |-> "",
     value |-> NoValue, fault |-> "none", hit |-> FALSE, tx |-> "none",
     effect |-> NoEffect, err |-> "nil", found |-> FALSE, pre |-> <<>>,
     seen |-> {}, with |-> {}]

\* the shape of the state
TypeOK ==
    /\ \A i \in 1..Len(rows) :
          /\ <<rows[i].universe, rows[i].entity, rows[i].key>> \in AllTriples
          /\ Len(rows[i].value) >= 1
    /\ out.type \in SlotTypes
    /\ last.op \in {"NewTagsEngine", "Declare", "Get", "Set", "Delete", "Tags",
                    "Tags.TagBag", "Tags.Tag", "TagBag.Tag"}
    /\ last.found \in BOOLEAN /\ last.existed \in BOOLEAN
    /\ last.err \in {"nil", "UnsupportedTypeError", "SyntaxError",
                     "UnmarshalTypeError", "ScanError", "ErrPrepare", "ErrQuery"}
    /\ ElemsOf(list) \subseteq Keys \cup {""}
    /\ \A t \in AllTriples : written[t] \in GoValues \cup {NoValue}
    /\ \A p \in Procs :
          /\ calls[p].pc \in {"idle", "begin", "prepare", "exec", "commit",
                               "read", "return"}
          /\ calls[p].op \in {"none", "Get", "Set", "Delete", "Tags"}
          /\ calls[p].tx \in {"none", "open", "committed", "rolledback"}
          /\ calls[p].fault \in Faults \cup {"query", "next", "scan"}
          /\ calls[p].with \subseteq (Procs \ {p}) \cup {"many"}
    /\ lock \in Procs \cup {"none"}

\* prepareTagEngine: an empty, migrated table and a new engine
Init ==
    /\ rows = <<>>
    /\ out = [type |-> "*string", val |-> GoNil]
    /\ last = Call("NewTagsEngine", "", "", "", FALSE, FALSE, "nil")
    /\ list = <<>>
    /\ written = [t \in AllTriples |-> NoValue]
    /\ calls = [p \in Procs |-> IdleCall]
    /\ lock = "none"
    /\ handles = {}

\* the caller declares or reassigns the variable it will pass to Get
Declare(slot) ==
    /\ out' = slot
    /\ last' = Call("Declare", "", "", "", FALSE, FALSE, "nil")
    /\ list' = <<>>
    /\ UNCHANGED <<rows, written>>
    /\ UNCHANGED aux

Get(u, e, k) ==
    LET r == TagGet(rows, u, e, k, out)
    IN  /\ out' = r.out
        /\ last' = Call("Get", u, e, k, Present(rows, u, e, k), r.found, r.err)
        /\ list' = <<>>
        /\ rows' = GetRows(rows, u, e, k, out)
        /\ UNCHANGED written
        /\ UNCHANGED aux

Set(u, e, k, value) ==
    LET r == TagSet(rows, u, e, k, value)
    IN  /\ rows' = r.rows
        /\ last' = Call("Set", u, e, k, Present(rows, u, e, k), FALSE, r.err)
        /\ written' = IF r.err = "nil" THEN [written EXCEPT ![<<u, e, k>>] = value]
                      ELSE written
        /\ list' = <<>>
        /\ UNCHANGED out
        /\ UNCHANGED aux

Delete(u, e, k) ==
    LET r == TagDelete(rows, u, e, k)
    IN  /\ rows' = r.rows
        /\ last' = Call("Delete", u, e, k, Present(rows, u, e, k), FALSE, r.err)
        /\ written' = IF r.err = "nil" THEN [written EXCEPT ![<<u, e, k>>] = NoValue]
                      ELSE written
        /\ list' = <<>>
        /\ UNCHANGED out
        /\ UNCHANGED aux

Tags(u, e, plan) ==
    LET r == BagTags(rows, u, e, plan)
    IN  /\ list' = r.list
        /\ last' = Call("Tags", u, e, "", FALSE, FALSE, r.err)
        /\ rows' = TagsRows(rows, u, e)
        /\ UNCHANGED <<out, written>>
        /\ UNCHANGED aux

\* TagBag.Tags() in which store call f fails; the caller's record keeps
\* what failed
TagsAt(u, e, plan, f, i) ==
    LET r == BagTagsAt(rows, u, e, plan, f, i)
    IN  /\ list' = r.list
        /\ last' = Call("Tags", u, e, "", FALSE, FALSE, r.err)
        /\ rows' = TagsRows(rows, u, e)
        /\ calls' = [calls EXCEPT !["p1"] =
                        [IdleCall EXCEPT !.op = "Tags", !.universe = u,
                                         !.entity = e, !.fault = f,
                                         !.hit = r.hit, !.err = r.err]]
        /\ UNCHANGED <<out, written, lock, handles>>

Next ==
    \/ \E s \in StoreSlots : Declare(s)
    \/ \E t \in Triples : Get(t[1], t[2], t[3])
    \/ \E t \in Triples, v \in StoreValues : Set(t[1], t[2], t[3], v)
    \/ \E t \in Triples : Delete(t[1], t[2], t[3])
    \/ \E u \in Universes, e \in Entities, plan \in ScanPlans : Tags(u, e, plan)

Spec == Init /\ [][Next]_vars

NextBag ==
    \/ \E s \in StoreSlots : Declare(s)
    \/ \E t \in BagTriples : Get(t[1], t[2], t[3])
    \/ \E t \in BagTriples, v \in StoreValues : Set(t[1], t[2], t[3], v)
    \/ \E t \in BagTriples : Delete(t[1], t[2], t[3])
    \/ \E plan \in ScanPlans : Tags("u1", "e1", plan)

SpecBag == Init /\ [][NextBag]_vars

NextCodec ==
    \/ \E s \in Slots : Declare(s)
    \/ \E t \in CodecTriples : Get(t[1], t[2], t[3])
    \/ \E t \in CodecTriples, v \in CodecValues : Set(t[1], t[2], t[3], v)
    \/ \E t \in CodecTriples : Delete(t[1], t[2], t[3])
    \/ \E t \in CodecTriples, plan \in ScanPlans : Tags(t[1], t[2], plan)

SpecCodec == Init /\ [][NextCodec]_vars

(***************************************************************************)
(* Properties.                                                             *)
(***************************************************************************)
\* the triple the last call addressed, and the value last Set on it
LastTriple == <<last.universe, last.entity, last.key>>
LastWritten == written[LastTriple]

\* C1 (round trip): a Get of a triple whose last mutation was a successful
\* Set(v), into a variable of a type compatible with v, returns found = true
\* and a nil error and leaves v in the variable.
C1_RoundTrip ==
    (/\ last.op = "Get"
     /\ LastWritten # NoValue
     /\ Compatible(LastWritten, out.type))
        => (last.found /\ last.err = "nil" /\ out.val = LastWritten)

\* C2 (upsert overwrite): after a Set(b) on a triple that already had a row,
\* the triple has one row, its text is the encoding of b, and a Get into any
\* compatible variable returns found = true, a nil error and b.
C2_UpsertOverwrite ==
    (last.op = "Set" /\ last.err = "nil" /\ last.existed)
        => /\ tagQuery(rows, last.universe, last.entity, last.key)
                 = <<Marshal(LastWritten).raw>>
           /\ \A s \in Slots :
                 Compatible(LastWritten, s.type) =>
                    LET g == TagGet(rows, last.universe, last.entity, last.key, s)
                    IN  g.found /\ g.err = "nil" /\ g.out.val = LastWritten

\* C3 (absence): a Get of a triple that has no row returns found = false and
\* a nil error, and the caller's variable is after the call what it was before.
C3_Absence ==
    [][(last'.op = "Get" /\ ~last'.existed)
          => (~last'.found /\ last'.err = "nil" /\ out' = out)]_vars

C3_Witness ==
    /\ last.op = "Get" /\ ~last.existed /\ ~last.found /\ last.err = "nil"
    /\ out.val # ZeroValue(out.type)

\* C4 (delete removes a present tag): after a Delete of a triple that had a
\* row, Delete returned nil, the triple has no row, a Get of it into any
\* variable returns found = false and no listing of its tag-bag has the key.
C4_DeleteRemoves ==
    (last.op = "Delete" /\ last.existed)
        => /\ last.err = "nil"
           /\ ~Present(rows, last.universe, last.entity, last.key)
           /\ \A s \in Slots :
                 ~TagGet(rows, last.universe, last.entity, last.key, s).found
           /\ \A plan \in ScanPlans :
                 last.key \notin
                    ElemsOf(BagTags(rows, last.universe, last.entity, plan).list)

C4_Witness ==
    /\ last.op = "Delete" /\ last.existed /\ last.err = "nil"
    /\ \E i \in 1..Len(rows) : SameBag(rows[i], last.universe, last.entity)

\* C5 (idempotent delete): a Delete of a triple that has no row returns nil
\* and leaves the table as it was, and a Delete that follows any Delete of
\* the same triple returns nil and leaves the table as that Delete left it.
C5_IdempotentDelete ==
    [][last'.op = "Delete"
          => /\ ~last'.existed => (last'.err = "nil" /\ rows' = rows)
             /\ LET again == TagDelete(rows', last'.universe, last'.entity, last'.key)
                IN  again.err = "nil" /\ again.rows = rows']_vars

C5_Witness ==
    /\ last.op = "Delete" /\ ~last.existed /\ last.err = "nil"
    /\ rows # <<>>

C7_ListingSorted ==
    last.op = "Tags" =>
        \A i, j \in 1..Len(list) : i < j => Rank(list[i]) < Rank(list[j])

\* C8 (listing membership): Tags returns a nil error and a list that holds
\* exactly the keys that have a row under its (universe, entity), each once.
C8_ListingMembership ==
    last.op = "Tags" =>
        LET here == {k \in Keys : Present(rows, last.universe, last.entity, k)}
        IN  /\ last.err = "nil"
            /\ ElemsOf(list) = here
            /\ Len(list) = Cardinality(here)

C8_Witness ==
    /\ last.op = "Tags" /\ list # <<>>
    /\ \E i \in 1..Len(rows) : ~SameBag(rows[i], last.universe, last.entity)

\* C9 (namespace isolation): a Set on (u, e, k) leaves what Get returns for
\* (u2, e, k), u2 # u, and for (u, e2, k), e2 # e, as it was.
C9_NamespaceIsolation ==
    [][last'.op = "Set" =>
          \A t \in Triples :
             (/\ t[3] = last'.key
              /\ \/ t[1] # last'.universe /\ t[2] = last'.entity
                 \/ t[1] = last'.universe /\ t[2] # last'.entity)
                => \A s \in StoreSlots :
                      TagGet(rows', t[1], t[2], t[3], s) = TagGet(rows, t[1], t[2], t[3], s)]_vars

C9_Witness ==
    /\ last.op = "Set" /\ last.err = "nil"
    /\ \E i \in 1..Len(rows) :
          /\ rows[i].key = last.key
          /\ rows[i].entity = last.entity
          /\ rows[i].universe # last.universe
          /\ rows[i].value # Marshal(LastWritten).raw
    /\ \E i \in 1..Len(rows) :
          /\ rows[i].key = last.key
          /\ rows[i].universe = last.universe
          /\ rows[i].entity # last.entity

\* C10 (per-tag independence): a Set or a Delete on a triple leaves every
\* other triple with the row and the value it had.
C10_Independence ==
    [][last'.op \in {"Set", "Delete"} =>
          \A t \in AllTriples :
             t # <<last'.universe, last'.entity, last'.key>>
                => tagQuery(rows', t[1], t[2], t[3]) = tagQuery(rows, t[1], t[2], t[3])]_vars

C10_Witness ==
    /\ last.op = "Delete" /\ last.existed
    /\ \E i \in 1..Len(rows) :
          SameBag(rows[i], last.universe, last.entity) /\ rows[i].key # last.key


(***************************************************************************)
(* The calls, a store call at a time.  Set and Delete open a transaction   *)
(* (db.Begin), defer its Rollback, prepare the statement in it, execute   *)
(* it and commit; Get prepares tagQuery and reads its first row.  The      *)
(* store lets one transaction write at a time: a statement that writes     *)
(* takes the write lock and holds it until its transaction ends, and what  *)
(* it wrote reaches the table when the transaction commits.                *)
(***************************************************************************)
\* the text the table holds for a triple, <<>> when it has no row
TextOf(tbl, u, e, k) ==
    LET q == tagQuery(tbl, u, e, k) IN IF q = <<>> THEN <<>> ELSE q[1]

\* mutant: the statement runs outside the transaction and its write lock
CanWriteUnlocked(holder, p) == TRUE

\* stmt.Exec of a statement prepared with tx.Prepare: it writes when no
\* other transaction holds the write lock
CanWrite(holder, p) == holder \in {"none", p}

\* what tagUpsert does when it is executed: it updates the row in conflict
\* or, when there is none, inserts one
UpsertEffect(tbl, u, e, k, raw) ==
    [kind |-> "upsert", universe |-> u, entity |-> e, key |-> k, raw |-> raw,
     conflict |-> Present(tbl, u, e, k)]

\* what tagDelete does when it is executed
DeleteEffect(tbl, u, e, k) ==
    [kind |-> "delete", universe |-> u, entity |-> e, key |-> k, raw |-> <<>>,
     conflict |-> Present(tbl, u, e, k)]

\* mutant: the overwrite is a DELETE followed by an INSERT, the DELETE
\* executed outside the transaction
UncommittedReplace(tbl, w) ==
    IF w.kind = "upsert" THEN tagDelete(tbl, w.universe, w.entity, w.key)
    ELSE tbl

\* the table the other callers read once the statement is executed and its
\* transaction is not committed: the statement runs inside the transaction
Uncommitted(tbl, w) == tbl

\* the table once the transaction is committed
Committed(tbl, w) ==
    CASE w.kind = "upsert" ->
            IF w.conflict
            THEN tagUpsert(tbl, w.universe, w.entity, w.key, w.raw)
            ELSE Append(tbl, Row(w.universe, w.entity, w.key, w.raw))
      [] w.kind = "delete" -> tagDelete(tbl, w.universe, w.entity, w.key)
      [] OTHER -> tbl

\* mutant: the deferred Rollback sets the error the call returns
ReturnedRollback(err, tx) ==
    IF err = "nil" /\ tx = "committed" THEN "ErrTxDone" ELSE err

\* the error the call returns: what the deferred tx.Rollback() and
\* stmt.Close() return is dropped
Returned(err, tx) == err

\* mutant: the error of json.Marshal is dropped and the empty text stored
SetEntryUnchecked(value) ==
    [pc |-> "begin", err |-> "nil", raw |-> Marshal(value).raw]

\* Tag.Set up to db.Begin: an encoding error is returned before the store
\* is called
SetEntry(value) ==
    LET m == Marshal(value)
    IN  IF m.err # "nil" THEN [pc |-> "return", err |-> m.err, raw |-> <<>>]
        ELSE [pc |-> "begin", err |-> "nil", raw |-> m.raw]

\* the variable a Get of these specifications decodes into
CallSlot == [type |-> "*string", val |-> GoNil]

\* who is in a call when caller p begins one
Others(p) == {q \in Procs \ {p} : calls[q].pc # "idle"}

\* a call begins: the callers in a call overlap it, the others no longer
\* do; a call that a second call of one caller overlaps is marked "many"
Enter(p, c) ==
    calls' = [q \in Procs |->
                IF q = p THEN [c EXCEPT !.with = Others(p), !.pre = rows]
                ELSE IF calls[q].pc # "idle"
                     THEN [calls[q] EXCEPT !.with =
                             IF p \in @ THEN @ \cup {"many"} ELSE @ \cup {p}]
                     ELSE [calls[q] EXCEPT !.with = @ \ {p}]]

Quiet == UNCHANGED <<out, last, list, written, handles>>

CallSet(p, u, e, k, value, f) ==
    /\ calls[p].pc = "idle"
    /\ LET s == SetEntry(value)
       IN  Enter(p, [IdleCall EXCEPT !.pc = s.pc, !.op = "Set", !.universe = u,
                        !.entity = e, !.key = k, !.value = value, !.fault = f,
                        !.err = s.err])
    /\ UNCHANGED <<rows, lock>> /\ Quiet

CallDelete(p, u, e, k, f) ==
    /\ calls[p].pc = "idle"
    /\ Enter(p, [IdleCall EXCEPT !.pc = "begin", !.op = "Delete", !.universe = u,
                    !.entity = e, !.key = k, !.fault = f])
    /\ UNCHANGED <<rows, lock>> /\ Quiet

CallGet(p, u, e, k) ==
    /\ calls[p].pc = "idle"
    /\ Enter(p, [IdleCall EXCEPT !.pc = "read", !.op = "Get", !.universe = u,
                    !.entity = e, !.key = k,
                    !.seen = {TextOf(rows, u, e, k)}])
    /\ UNCHANGED <<rows, lock>> /\ Quiet

\* a store call of the call fails: the error is kept for the return
Fail(p, name) ==
    calls' = [calls EXCEPT ![p].pc = "return", ![p].hit = TRUE,
                           ![p].err = name]

\* tx, err := tag.db.Begin()
TxBegin(p) ==
    /\ calls[p].pc = "begin"
    /\ IF calls[p].fault = "begin" THEN Fail(p, "ErrBegin")
       ELSE calls' = [calls EXCEPT ![p].pc = "prepare", ![p].tx = "open"]
    /\ UNCHANGED <<rows, lock>> /\ Quiet

\* stmt, err := tx.Prepare(...)
TxPrepare(p) ==
    /\ calls[p].pc = "prepare"
    /\ IF calls[p].fault = "prepare" THEN Fail(p, "ErrPrepare")
       ELSE calls' = [calls EXCEPT ![p].pc = "exec"]
    /\ UNCHANGED <<rows, lock>> /\ Quiet

\* stmt.Exec(...): the statement takes the write lock and is executed
StmtExec(p) ==
    LET c == calls[p]
        w == IF c.op = "Set"
             THEN UpsertEffect(rows, c.universe, c.entity, c.key,
                               SetEntry(c.value).raw)
             ELSE DeleteEffect(rows, c.universe, c.entity, c.key)
    IN  /\ c.pc = "exec"
        /\ IF c.fault = "exec"
           THEN Fail(p, "ErrExec") /\ UNCHANGED <<rows, lock>>
           ELSE /\ CanWrite(lock, p)
                /\ lock' = p
                /\ rows' = Uncommitted(rows, w)
                /\ calls' = [calls EXCEPT ![p].pc = "commit", ![p].effect = w]
        /\ Quiet

\* stmt.Exec(...) while another transaction holds the write lock and the
\* store gives up waiting for it
StmtExecBusy(p) ==
    /\ calls[p].pc = "exec"
    /\ calls[p].fault = "none"
    /\ ~CanWrite(lock, p)
    /\ calls' = [calls EXCEPT ![p].pc = "return", ![p].err = "ErrBusy"]
    /\ UNCHANGED <<rows, lock>> /\ Quiet

\* tx.Commit(): what it returns is dropped.  A commit that fails leaves the
\* transaction rolled back.
TxCommit(p) ==
    LET c == calls[p]
    IN  /\ c.pc = "commit"
        /\ lock' = "none"
        /\ IF c.fault = "commit"
           THEN /\ calls' = [calls EXCEPT ![p].pc = "return", ![p].hit = TRUE,
                                          ![p].tx = "rolledback",
                                          ![p].effect = NoEffect]
                /\ UNCHANGED rows
           ELSE /\ rows' = Committed(rows, c.effect)
                /\ calls' = [q \in Procs |->
                     IF q = p
                     THEN [c EXCEPT !.pc = "return", !.tx = "committed"]
                     ELSE IF /\ calls[q].op = "Get" /\ calls[q].pc = "read"
                             /\ calls[q].universe = c.universe
                             /\ calls[q].entity = c.entity
                             /\ calls[q].key = c.key
                          THEN [calls[q] EXCEPT !.seen = @ \cup
                                  {TextOf(rows', c.universe, c.entity, c.key)}]
                          ELSE calls[q]]
        /\ Quiet

\* Tag.Get: tagQuery is prepared and run, its first row scanned and decoded
Read(p) ==
    LET c == calls[p]
        r == TagGet(rows, c.universe, c.entity, c.key, CallSlot)
    IN  /\ c.pc = "read"
        /\ calls' = [calls EXCEPT ![p].pc = "return", ![p].found = r.found,
                                  ![p].err = r.err]
        /\ rows' = GetRows(rows, c.universe, c.entity, c.key, CallSlot)
        /\ UNCHANGED lock /\ Quiet

\* mutant: no tx.Rollback() is deferred
DeferredNone(tx) == tx

\* the transaction after the deferred tx.Rollback(): rolled back when it
\* was still open, as it was when it is done or was never begun
Deferred(tx) == IF tx = "open" THEN "rolledback" ELSE tx

\* the call returns: the deferred tx.Rollback() rolls back a transaction
\* that is still open and does nothing to one that is done; a transaction
\* that has ended holds no lock
Return(p) ==
    LET c == calls[p]
    IN  /\ c.pc = "return"
        /\ calls' = [calls EXCEPT
                       ![p].pc = "idle",
                       ![p].tx = Deferred(c.tx),
                       ![p].effect = NoEffect,
                       ![p].err = Returned(c.err, c.tx)]
        /\ lock' = IF lock = p /\ Deferred(c.tx) # "open" THEN "none" ELSE lock
        /\ UNCHANGED rows /\ Quiet


\* SpecConc: two callers, one triple, two values that differ
ConcTriples == {<<"u1", "e1", "a">>}
ConcValues == {GoString("hello"), GoString("world")}

NextConc ==
    \/ \E p \in Procs, t \in ConcTriples, v \in ConcValues :
          CallSet(p, t[1], t[2], t[3], v, "none")
    \/ \E p \in Procs, t \in ConcTriples : CallDelete(p, t[1], t[2], t[3], "none")
    \/ \E p \in Procs, t \in ConcTriples : CallGet(p, t[1], t[2], t[3])
    \/ \E p \in Procs : TxBegin(p)
    \/ \E p \in Procs : TxPrepare(p)
    \/ \E p \in Procs : StmtExec(p)
    \/ \E p \in Procs : StmtExecBusy(p)
    \/ \E p \in Procs : TxCommit(p)
    \/ \E p \in Procs : Read(p)
    \/ \E p \in Procs : Return(p)

SpecConc == Init /\ [][NextConc]_vars

\* SpecFail: one caller, two triples, a value that cannot be encoded among
\* the values, and in each call the store call that fails, if any
FailTriples == {<<"u1", "e1", "a">>, <<"u1", "e1", "b">>}
FailValues == {GoString("hello"), GoNil, GoChan}

NextFail ==
    \/ \E t \in FailTriples, v \in FailValues, f \in Faults :
          CallSet("p1", t[1], t[2], t[3], v, f)
    \/ \E t \in FailTriples, f \in Faults : CallDelete("p1", t[1], t[2], t[3], f)
    \/ \E t \in FailTriples : CallGet("p1", t[1], t[2], t[3])
    \/ TxBegin("p1")
    \/ TxPrepare("p1")
    \/ StmtExec("p1")
    \/ TxCommit("p1")
    \/ Read("p1")
    \/ Return("p1")

SpecFail == Init /\ [][NextFail]_vars


(***************************************************************************)
(* Properties of the calls taken a store call at a time.                   *)
(***************************************************************************)
\* caller p has returned from a call of this operation
Done(p, op) == calls[p].pc = "idle" /\ calls[p].op = op

SameTarget(c, d) ==
    c.universe = d.universe /\ c.entity = d.entity /\ c.key = d.key

\* the text Set(value) stores
TextFor(value) == Marshal(value).raw

\* C11 (concurrent Sets serialize): once two Set calls on the same triple
\* that ran concurrently have both returned, the triple has exactly one row
\* and its text is the encoding of the value of one of the two calls, of a
\* call that returned nil.
C11_ConcurrentSets ==
    \A p \in Procs, q \in Procs :
       ( /\ p # q /\ Done(p, "Set") /\ Done(q, "Set")
         /\ SameTarget(calls[p], calls[q])
         /\ q \in calls[p].with /\ p \in calls[q].with
         /\ \E r \in {p, q} : calls[r].err = "nil" )
       => LET c == calls[p]
          IN  /\ Len(tagQuery(rows, c.universe, c.entity, c.key)) = 1
              /\ \E r \in {p, q} :
                    /\ calls[r].err = "nil"
                    /\ TextOf(rows, c.universe, c.entity, c.key)
                          = TextFor(calls[r].value)

\* two overlapping Sets of different values have both returned nil
C11_Witness ==
    /\ Done("p1", "Set") /\ Done("p2", "Set")
    /\ "p2" \in calls["p1"].with /\ "p1" \in calls["p2"].with
    /\ calls["p1"].err = "nil" /\ calls["p2"].err = "nil"
    /\ calls["p1"].value # calls["p2"].value
    /\ calls["p1"].tx = "committed" /\ calls["p2"].tx = "committed"


\* what a Get returns when it reads this text (<<>>: no row)
GetOf(text) ==
    IF text = <<>> THEN [found |-> FALSE, err |-> "nil"]
    ELSE LET um == Unmarshal(text, CallSlot)
         IN  [found |-> um.err = "nil", err |-> um.err]

C13_NoSwallowedErrors ==
    \A p \in Procs :
       LET c == calls[p]
       IN  (Done(p, "Set") \/ Done(p, "Delete")) =>
              /\ c.hit => c.err # "nil"
              /\ (c.op = "Set" /\ c.err = "nil") =>
                    TextOf(rows, c.universe, c.entity, c.key) = TextFor(c.value)
              /\ (c.op = "Delete" /\ c.err = "nil") =>
                    ~Present(rows, c.universe, c.entity, c.key)

\* C14 (rollback on failure): after a Set or Delete that returned a non-nil
\* error the table is the table the call began with.
C14_RollbackOnFailure ==
    \A p \in Procs :
       ((Done(p, "Set") \/ Done(p, "Delete")) /\ calls[p].err # "nil")
          => rows = calls[p].pre

\* a Set whose statement failed to execute, inside an open transaction and
\* on a triple that has a row, has returned the error
C14_Witness ==
    /\ Done("p1", "Set")
    /\ calls["p1"].hit /\ calls["p1"].fault = "exec"
    /\ calls["p1"].err = "ErrExec"
    /\ calls["p1"].tx = "rolledback"
    /\ Present(rows, calls["p1"].universe, calls["p1"].entity, calls["p1"].key)

\* C15 (encoding failure is side-effect free): a Set of a value that cannot
\* be encoded returns the encoder's error, opens no transaction and leaves
\* the table as it was.
C15_EncodingFailure ==
    \A p \in Procs :
       LET c == calls[p]
       IN  (c.op = "Set" /\ Marshal(c.value).err # "nil") =>
              /\ c.pc \in {"return", "idle"}
              /\ c.err = Marshal(c.value).err
              /\ c.tx = "none" /\ ~c.hit
              /\ lock = "none"
              /\ rows = c.pre

\* a Set of a channel, over a table that has a row of the triple, has
\* returned
C15_Witness ==
    /\ Done("p1", "Set") /\ calls["p1"].value = GoChan
    /\ calls["p1"].err = "UnsupportedTypeError"
    /\ Present(rows, calls["p1"].universe, calls["p1"].entity, calls["p1"].key)


(***************************************************************************)
(* SpecRaw: the table starts with one row whose text was inserted as is,   *)
(* as the tests insert theirs: a text that is no JSON, a number no int     *)
(* holds, an array and an object with an element that is no string, texts  *)
(* that Set could have written, and SQL NULL.                              *)
(***************************************************************************)
RawTexts ==
    {<<"hello">>, <<"{", Quote("hello")>>, <<"1.5">>,
     <<"[", Quote("hello"), ",", "1", "]">>,
     <<"{", Quote("hello"), ":", "true", "}">>,
     <<"null">>, <<Quote("hello")>>, <<"1">>,
     <<"[", Quote("hello"), "]">>, SqlNull}

InitRaw ==
    /\ rows \in {<<Row("u1", "e1", "a", raw)>> : raw \in RawTexts}
    /\ out = [type |-> "*string", val |-> GoNil]
    /\ last = Call("NewTagsEngine", "", "", "", FALSE, FALSE, "nil")
    /\ list = <<>>
    /\ written = [t \in AllTriples |-> NoValue]
    /\ calls = [p \in Procs |-> IdleCall]
    /\ lock = "none"
    /\ handles = {}

NextRaw ==
    \/ \E s \in Slots : Declare(s)
    \/ \E t \in CodecTriples : Get(t[1], t[2], t[3])
    \/ \E t \in CodecTriples : Delete(t[1], t[2], t[3])

SpecRaw == InitRaw /\ [][NextRaw]_vars

\* the kind of value a text is, "" when the text is no JSON
ShapeOf(raw) ==
    CASE ~Valid(raw) -> ""
      [] raw[1] = "[" -> "array"
      [] raw[1] = "{" -> "object"
      [] raw[1] = "null" -> "null"
      [] raw[1] \in {"true", "false"} -> "bool"
      [] raw[1] \in StringToks -> "string"
      [] OTHER -> "number"

\* the kinds of value a variable of this type takes
ShapesFor(type) ==
    CASE type = "int" -> {"number", "null"}
      [] type = "string" -> {"string", "null"}
      [] type = "bool" -> {"bool", "null"}
      [] type = "*string" -> {"string", "null"}
      [] type = "[]string" -> {"array", "null"}
      [] OTHER -> {"object", "null"}

\* C16 (decoding failure leaves the row intact): a Get that finds a row
\* whose text is no JSON or is a value of a kind the variable does not take
\* returns found = false and a non-nil error, and a Get that returns an
\* error leaves the table, the row and its text, as it was.
C16_DecodeFailure ==
    [][ last'.op = "Get" =>
          LET text == TextOf(rows, last'.universe, last'.entity, last'.key)
          IN  /\ (text # <<>> /\ ShapeOf(text) \notin ShapesFor(out.type))
                    => (last'.err # "nil" /\ ~last'.found)
              /\ last'.err # "nil" => (rows' = rows /\ last'.existed) ]_vars

\* a Get has failed on a text that is no JSON, and the row is there
C16_Witness ==
    /\ last.op = "Get" /\ last.err = "SyntaxError" /\ ~last.found
    /\ ~Valid(TextOf(rows, "u1", "e1", "a"))
    /\ Len(rows) = 1


(***************************************************************************)
(* Properties of the encoding.                                             *)
(***************************************************************************)
\* C17 (JSON null is a value): after Set(nil) the triple has a row whose
\* text is null, a Get into a variable that can be nil finds it and leaves
\* nil in the variable, and Tags lists the key; after a Delete the Get
\* finds nothing.  A Set of anything else, over null too, leaves a text
\* that is not null.
C17_NullIsValue ==
    LET u == last.universe
        e == last.entity
        k == last.key
    IN  /\ (last.op = "Set" /\ last.err = "nil" /\ LastWritten = GoNil) =>
              /\ tagQuery(rows, u, e, k) = << <<"null">> >>
              /\ \A s \in Slots :
                    Nullable(s.type) =>
                       TagGet(rows, u, e, k, s)
                          = [found |-> TRUE, err |-> "nil",
                             out |-> [s EXCEPT !.val = GoNil]]
              /\ \A plan \in ScanPlans : k \in ElemsOf(tagKeys(rows, u, e, plan))
        /\ (last.op = "Set" /\ last.err = "nil" /\ LastWritten # GoNil) =>
              /\ Len(tagQuery(rows, u, e, k)) = 1
              /\ TextOf(rows, u, e, k) # <<"null">>
        /\ last.op = "Delete" =>
              \A s \in Slots : ~TagGet(rows, u, e, k, s).found

\* Set(nil) has overwritten a row, and the caller's variable holds a string
C17_Witness ==
    /\ last.op = "Set" /\ last.err = "nil" /\ last.existed
    /\ LastWritten = GoNil
    /\ out = [type |-> "*string", val |-> GoString("hello")]
    /\ TagGet(rows, last.universe, last.entity, last.key, out).out.val = GoNil


\* C18 (canonical stored text): the text a Set leaves in the row is the
\* encoder's text of the value: a scalar is its one token, an array has the
\* elements of the value in their order, an object has one pair for each
\* key of the map, the keys in ascending order.
C18_CanonicalText ==
    (last.op = "Set" /\ last.err = "nil") =>
       LET v == LastWritten
           raw == TextOf(rows, last.universe, last.entity, last.key)
       IN  /\ raw = TextFor(v)
           /\ v.kind = "nil" => raw = <<"null">>
           /\ v.kind = "string" => raw = <<Quote(v.s)>>
           /\ v.kind = "int" => raw = <<NumTok(v.n)>>
           /\ v.kind = "bool" => raw \in {<<"true">>, <<"false">>}
           /\ v.kind = "slice" =>
                 /\ ValidArray(raw)
                 /\ ArrayElems(raw) = [i \in 1..Len(v.elems) |-> Quote(v.elems[i])]
           /\ v.kind = "map" =>
                 /\ ValidObject(raw)
                 /\ LET ps == ObjectPairs(raw)
                    IN  /\ {Unquote(ps[i][1]) : i \in 1..Len(ps)} = DOMAIN v.m
                        /\ \A i \in 1..Len(ps) :
                              ps[i][2] = Quote(v.m[Unquote(ps[i][1])])
                        /\ \A i \in 1..Len(ps), j \in 1..Len(ps) :
                              i < j => Rank(Unquote(ps[i][1])) < Rank(Unquote(ps[j][1]))

\* a map of two keys has been Set
C18_Witness ==
    /\ last.op = "Set" /\ last.err = "nil"
    /\ LastWritten.kind = "map"
    /\ DOMAIN LastWritten.m = {"hello", "john"}
    /\ Len(ObjectPairs(TextOf(rows, last.universe, last.entity, last.key))) = 2


(***************************************************************************)
(* Handles.  A handle is the struct the constructor returns: Tags{db},     *)
(* TagBag{db, universe, entity}, Tag{db, universe, entity, key}.  The      *)
(* caller keeps, with each handle, the constructor that made it (how), the *)
(* arguments it asked for (asked) and whether the triple had a row when it *)
(* was made (made).                                                        *)
(***************************************************************************)
\* NewTagsEngine(db)
NewTagsEngine(db) == [kind |-> "Tags", db |-> db]

\* tags.TagBag(universe, entity)
TagsTagBag(tags, u, e) ==
    [kind |-> "TagBag", db |-> tags.db, universe |-> u, entity |-> e]

\* bag.Tag(key)
TagBagTag(bag, k) ==
    [kind |-> "Tag", db |-> bag.db, universe |-> bag.universe,
     entity |-> bag.entity, key |-> k]

\* mutant: the shortcut builds the Tag itself, universe and entity swapped
TagsTagSwapped(tags, u, e, k) ==
    [kind |-> "Tag", db |-> tags.db, universe |-> e, entity |-> u, key |-> k]

\* tags.Tag(universe, entity, key)
TagsTag(tags, u, e, k) == TagBagTag(TagsTagBag(tags, u, e), k)

\* mutant: the constructor of a Tag creates the row when there is none
ConstructedEager(tbl, ref) ==
    IF ref.kind = "Tag" /\ ~Present(tbl, ref.universe, ref.entity, ref.key)
    THEN tagUpsert(tbl, ref.universe, ref.entity, ref.key, <<"null">>)
    ELSE tbl

\* the table after a constructor returned ref: the constructors fill a
\* struct and call nothing on db
Constructed(tbl, ref) == tbl

Handle(how, u, e, k, ref) ==
    [how |-> how, asked |-> <<u, e, k>>, ref |-> ref,
     made |-> Present(rows, u, e, k)]

\* a constructor returns ref to the caller
Construct(how, u, e, k, ref) ==
    /\ handles' = handles \cup {Handle(how, u, e, k, ref)}
    /\ rows' = Constructed(rows, ref)
    /\ last' = Call(how, u, e, k, Present(rows, u, e, k), FALSE, "nil")
    /\ list' = <<>>
    /\ UNCHANGED <<out, written, calls, lock>>

HandlesOf(kind) == {h \in handles : h.ref.kind = kind}

MakeEngine == Construct("NewTagsEngine", "", "", "", NewTagsEngine("db"))

MakeTagBag(tags, u, e) ==
    Construct("Tags.TagBag", u, e, "", TagsTagBag(tags.ref, u, e))

MakeTag(tags, u, e, k) ==
    Construct("Tags.Tag", u, e, k, TagsTag(tags.ref, u, e, k))

MakeBagTag(bag, k) ==
    Construct("TagBag.Tag", bag.asked[1], bag.asked[2], k, TagBagTag(bag.ref, k))

\* SpecHandle: one triple, the calls made through the handles the caller
\* holds
HandleTriples == {<<"u1", "e1", "a">>}

NextHandle ==
    \/ MakeEngine
    \/ \E g \in HandlesOf("Tags"), t \in HandleTriples : MakeTagBag(g, t[1], t[2])
    \/ \E g \in HandlesOf("Tags"), t \in HandleTriples : MakeTag(g, t[1], t[2], t[3])
    \/ \E b \in HandlesOf("TagBag"), t \in HandleTriples : MakeBagTag(b, t[3])
    \/ \E s \in StoreSlots : Declare(s)
    \/ \E h \in HandlesOf("Tag") : Get(h.ref.universe, h.ref.entity, h.ref.key)
    \/ \E h \in HandlesOf("Tag"), v \in StoreValues :
          Set(h.ref.universe, h.ref.entity, h.ref.key, v)
    \/ \E h \in HandlesOf("Tag") : Delete(h.ref.universe, h.ref.entity, h.ref.key)
    \/ \E b \in HandlesOf("TagBag"), plan \in ScanPlans :
          Tags(b.ref.universe, b.ref.entity, plan)

SpecHandle == Init /\ [][NextHandle]_vars


Constructors == {"NewTagsEngine", "Tags.TagBag", "Tags.Tag", "TagBag.Tag"}

\* C19 (handle constructors are pure): NewTagsEngine, Tags.TagBag, Tags.Tag
\* and TagBag.Tag return a handle and no error and leave the table as it
\* was, whether the triple they name has a row or not.
C19_PureConstructors ==
    [][ last'.op \in Constructors =>
          /\ rows' = rows
          /\ last'.err = "nil"
          /\ \E h \in handles' :
                /\ h.how = last'.op
                /\ h.asked = <<last'.universe, last'.entity, last'.key>>
                /\ h.made = last'.existed ]_vars

\* a Tag was made from a TagBag for a triple that has no row, after another
\* was made while the triple had one
C19_Witness ==
    /\ last.op = "TagBag.Tag" /\ ~last.existed
    /\ rows = <<>>
    /\ \E h \in HandlesOf("Tag") : h.made

\* what Get, Set and Delete through a Tag handle return: [found, err, out],
\* [err, rows], [err, rows]
HandleGet(tbl, ref, slot) == TagGet(tbl, ref.universe, ref.entity, ref.key, slot)
HandleSet(tbl, ref, value) == TagSet(tbl, ref.universe, ref.entity, ref.key, value)
HandleDelete(tbl, ref) == TagDelete(tbl, ref.universe, ref.entity, ref.key)

\* C20 (handles are interchangeable, uncached views): two Tag handles asked
\* for the same triple, whichever constructor made them and whether the
\* triple had a row then or not, return the same from Get, Set and Delete,
\* which is what the table holds for the triple asked for; and a Get
\* through one finds the value a Set through the other has just stored.
C20_Interchangeable ==
    \A h \in HandlesOf("Tag"), g \in HandlesOf("Tag") :
       h.asked = g.asked =>
          /\ \A s \in StoreSlots :
                /\ HandleGet(rows, h.ref, s) = HandleGet(rows, g.ref, s)
                /\ HandleGet(rows, h.ref, s)
                      = TagGet(rows, h.asked[1], h.asked[2], h.asked[3], s)
          /\ \A v \in StoreValues :
                /\ HandleSet(rows, h.ref, v) = HandleSet(rows, g.ref, v)
                /\ \A s \in StoreSlots :
                      HandleGet(HandleSet(rows, g.ref, v).rows, h.ref, s)
                         = [found |-> TRUE, err |-> "nil",
                            out |-> [s EXCEPT !.val = v]]
          /\ HandleDelete(rows, h.ref) = HandleDelete(rows, g.ref)
          /\ \A s \in StoreSlots :
                ~HandleGet(HandleDelete(rows, g.ref).rows, h.ref, s).found

\* the caller holds a Tag made by Tags.Tag while the triple had no row and
\* one made by TagBag.Tag while it had one, and the row has since been
\* overwritten through one of them
C20_Witness ==
    /\ \E h \in HandlesOf("Tag"), g \in HandlesOf("Tag") :
          /\ h.how = "Tags.Tag" /\ g.how = "TagBag.Tag"
          /\ h.asked = g.asked
          /\ ~h.made /\ g.made
    /\ last.op = "Set" /\ last.existed /\ last.err = "nil"
    /\ TextOf(rows, "u1", "e1", "a") = <<"null">>


(***************************************************************************)
(* Properties of the calls as a whole.                                     *)
(***************************************************************************)
\* the rows of the table that belong to a triple
RowsOf(tbl, t) ==
    {i \in 1..Len(tbl) :
        tbl[i].universe = t[1] /\ tbl[i].entity = t[2] /\ tbl[i].key = t[3]}

\* C21 (map refinement): over sequential calls the table is the map from
\* triples to texts that the last Set or Delete of each triple leaves: a
\* triple last Set to v has one row, with the text of v, a triple last
\* deleted or never Set has none; Get finds a triple when the map has it
\* and leaves its value in the variable, and Tags lists the keys the map
\* has under the pair, each once.
C21_MapRefinement ==
    /\ \A t \in AllTriples :
          IF written[t] = NoValue THEN RowsOf(rows, t) = {}
          ELSE /\ Cardinality(RowsOf(rows, t)) = 1
               /\ \A i \in RowsOf(rows, t) : rows[i].value = TextFor(written[t])
    /\ last.op = "Get" =>
          /\ last.err = "nil"
          /\ last.found = (LastWritten # NoValue)
          /\ last.found => out.val = LastWritten
    /\ last.op = "Tags" =>
          /\ last.err = "nil"
          /\ ElemsOf(list)
                = {k \in Keys : written[<<last.universe, last.entity, k>>] # NoValue}
          /\ \A i \in 1..Len(list), j \in 1..Len(list) : list[i] = list[j] => i = j

\* a Get has found the value Set last on a triple whose row came after
\* the rows of two other triples
C21_Witness ==
    /\ last.op = "Get" /\ last.found
    /\ LastWritten = GoString("hello")
    /\ Len(rows) = 3
    /\ LastTriple = <<"u1", "e1", "a">>
    /\ rows[3].key = "a" /\ rows[3].universe = "u1" /\ rows[3].entity = "e1"


\* json.Unmarshal takes this text into a variable of this type: the text is
\* JSON, of a kind the type takes, a number is an integer for an int, and
\* the elements of an array and the values of an object are strings or null
Decodable(raw, type) ==
    /\ raw # SqlNull
    /\ Valid(raw)
    /\ ShapeOf(raw) \in ShapesFor(type)
    /\ ShapeOf(raw) = "number" => raw[1] \in NumToks
    /\ ShapeOf(raw) = "array" =>
          \A i \in 1..Len(ArrayElems(raw)) :
             ArrayElems(raw)[i] \in StringToks \cup {"null"}
    /\ ShapeOf(raw) = "object" =>
          \A i \in 1..Len(ObjectPairs(raw)) :
             ObjectPairs(raw)[i][2] \in StringToks \cup {"null"}

\* C22 (Get reports decode failures faithfully): Get returns a non-nil
\* error exactly when the triple has a row whose text cannot be decoded
\* into the variable; it returns (false, nil) exactly when the triple has
\* no row, and found = true only with a nil error.
C22_FaithfulDecode ==
    [][ last'.op = "Get" =>
          LET rs == tagQuery(rows, last'.universe, last'.entity, last'.key)
          IN  /\ (last'.err # "nil")
                    <=> (rs # <<>> /\ ~Decodable(rs[1], out.type))
              /\ (~last'.found /\ last'.err = "nil") <=> (rs = <<>>)
              /\ last'.found => last'.err = "nil" ]_vars

\* a Get into a []string has failed on an array one element of which is a
\* number
C22_Witness ==
    /\ last.op = "Get" /\ last.err = "UnmarshalTypeError" /\ ~last.found
    /\ out.type = "[]string"
    /\ ShapeOf(TextOf(rows, "u1", "e1", "a")) = "array"


(***************************************************************************)
(* SpecRead: Get and Tags over a tag-bag of two keys, one of which starts  *)
(* with a row inserted as text; a store call of Tags may fail.             *)
(***************************************************************************)
ReadTriples == {<<"u1", "e1", "a">>, <<"u1", "e1", "b">>}
ReadSlots == {[type |-> "*string", val |-> GoNil],
              [type |-> "int", val |-> GoInt(0)],
              [type |-> "[]string", val |-> GoNil]}
ReadPositions == 1..3

NextRead ==
    \/ \E s \in ReadSlots : Declare(s)
    \/ \E t \in ReadTriples : Get(t[1], t[2], t[3])
    \/ \E t \in ReadTriples, v \in StoreValues : Set(t[1], t[2], t[3], v)
    \/ \E t \in ReadTriples : Delete(t[1], t[2], t[3])
    \/ \E plan \in ScanPlans, f \in TagsFaults, i \in ReadPositions :
          TagsAt("u1", "e1", plan, f, i)

SpecRead == InitRaw /\ [][NextRead]_vars

\* C23 (Tags does not hide enumeration failures): a Tags in which fetching
\* or scanning a row failed returns a non-nil error; a Tags that returns
\* nil returns all the keys of the bag and no empty string.
C23_EnumerationFailures ==
    last.op = "Tags" =>
       /\ calls["p1"].hit => last.err # "nil"
       /\ last.err = "nil" =>
             /\ ElemsOf(list)
                   = {k \in Keys : Present(rows, last.universe, last.entity, k)}
             /\ "" \notin ElemsOf(list)

\* C24 (reads are free of side effects): a Get and a Tags leave the table
\* as it was, when they succeed and when they return an error.
C24_ReadsSideEffectFree ==
    [][ last'.op \in {"Get", "Tags"} => rows' = rows ]_vars

\* a Tags has returned the error of its Query over a bag of two rows, one
\* of them with a text no variable decodes
C24_Witness ==
    /\ last.op = "Tags" /\ last.err = "ErrQuery"
    /\ Len(rows) = 2
    /\ \E i \in 1..2 : ~Valid(rows[i].value)


\* C25 (no transaction outlives its call): a caller that has returned from
\* a Set or a Delete has no open transaction, committed or rolled back when
\* one was begun, and holds no write lock; with no call in progress the
\* write lock is free.
C25_NoOpenTransaction ==
    /\ \A p \in Procs :
          (Done(p, "Set") \/ Done(p, "Delete")) =>
             /\ calls[p].tx \in {"none", "committed", "rolledback"}
             /\ calls[p].tx = "none" =>
                   (calls[p].err # "nil" /\ calls[p].effect = NoEffect)
             /\ lock # p
    /\ (\A p \in Procs : calls[p].pc = "idle") => lock = "none"

\* a Delete whose Prepare failed, after Begin opened the transaction, has
\* returned with the transaction rolled back
C25_Witness ==
    /\ Done("p1", "Delete")
    /\ calls["p1"].fault = "prepare" /\ calls["p1"].hit
    /\ calls["p1"].err = "ErrPrepare"
    /\ calls["p1"].tx = "rolledback"
    /\ rows # <<>>


(***************************************************************************)
(* SpecPair: two callers, Set and Delete on two triples of one tag-bag.    *)
(***************************************************************************)
PairTriples == {<<"u1", "e1", "a">>, <<"u1", "e1", "b">>}
PairValues == {GoString("hello")}

NextPair ==
    \/ \E p \in Procs, t \in PairTriples, v \in PairValues :
          CallSet(p, t[1], t[2], t[3], v, "none")
    \/ \E p \in Procs, t \in PairTriples : CallDelete(p, t[1], t[2], t[3], "none")
    \/ \E p \in Procs : TxBegin(p)
    \/ \E p \in Procs : TxPrepare(p)
    \/ \E p \in Procs : StmtExec(p)
    \/ \E p \in Procs : StmtExecBusy(p)
    \/ \E p \in Procs : TxCommit(p)
    \/ \E p \in Procs : Return(p)

SpecPair == Init /\ [][NextPair]_vars

\* the rows of a table, their order left aside
RowSet(tbl) == {tbl[i] : i \in 1..Len(tbl)}

\* a mutating call: <<operation, triple, value>>
PairCalls ==
    {<<"Set", t, v>> : t \in PairTriples, v \in PairValues}
       \cup {<<"Delete", t, NoValue>> : t \in PairTriples}

\* the table after the call, made alone
After(tbl, c) ==
    IF c[1] = "Set" THEN TagSet(tbl, c[2][1], c[2][2], c[2][3], c[3]).rows
    ELSE TagDelete(tbl, c[2][1], c[2][2], c[2][3]).rows

\* the table holds for the triple of caller p what p's call alone leaves
Outcome(p) ==
    LET c == calls[p]
        t == <<c.universe, c.entity, c.key>>
    IN  IF c.op = "Set"
        THEN /\ Cardinality(RowsOf(rows, t)) = 1
             /\ TextOf(rows, t[1], t[2], t[3]) = TextFor(c.value)
        ELSE RowsOf(rows, t) = {}

Mutated(p) == (Done(p, "Set") \/ Done(p, "Delete")) /\ calls[p].err = "nil"

====
